---- MODULE Spec2Model ----
(***************************************************************************)
(* The route handlers of src/index.js (an Express application over a       *)
(* mysql connection pool) as a state machine.                              *)
(*                                                                         *)
(* State: the seven tables the handlers read and write, the AUTO_INCREMENT *)
(* counter of each table, the sql_mode of the server, and one record per   *)
(* HTTP request: the statements it handed to pool.query, the (err, result) *)
(* pairs its callbacks received, and the calls it made on the response     *)
(* object.                                                                 *)
(*                                                                         *)
(* A handler that runs one statement is one action: the request arrives,   *)
(* the statement executes atomically in the database and the callback      *)
(* writes the response; nothing but the statement touches shared state.    *)
(* POST /api/Assets runs two statements and is two actions, so that other  *)
(* requests interleave between its lookup and its insert.                  *)
(*                                                                         *)
(* Tables carry one column for each way the handlers treat a column (a     *)
(* string column, an integer column, a column passed through `|| null`):   *)
(* the other columns of a table go through the same code as the one kept.  *)
(* The schema is not part of the repository: columns are taken nullable,   *)
(* primary keys AUTO_INCREMENT, and no foreign key is declared in the      *)
(* database.                                                               *)
(***************************************************************************)
EXTENDS Integers, Sequences, FiniteSets, TLC

\* Number of HTTP requests of one behaviour.
MaxReqs == 3
\* Identifiers that path parameters and request bodies name: 1..MaxId.
MaxId == 2

VARIABLES db, nextId, sqlStrict, req

vars == <<db, nextId, sqlStrict, req>>

Reqs == 1..MaxReqs

Entities == {"Church", "Person", "Stats", "User", "Calendar", "Assets", "Locations"}

(***************************************************************************)
(* JavaScript and SQL values: <<type, text>>, text being String(value).    *)
(***************************************************************************)
UNDEF == <<"undefined", "undefined">>
NULL == <<"null", "null">>
N(n) == <<"number", ToString(n)>>
S(t) == <<"string", t>>
SqlError == <<"error", "">>

\* The decimal texts, as far as the model's numbers go.
NumRange == 0..(MaxId + MaxReqs + 1)
NumTexts == {ToString(n) : n \in NumRange}
NumVal(t) == CHOOSE n \in NumRange : ToString(n) = t

\* `${v}` in a template literal.
ToStr(v) == v[2]

\* !v is false: v || w yields v.
Truthy(v) ==
  CASE v[1] = "undefined" -> FALSE
    [] v[1] = "null" -> FALSE
    [] v[1] = "number" -> v[2] \notin {"0", "NaN"}
    [] v[1] = "string" -> v[2] # ""
    [] OTHER -> TRUE

\* v || null
OrNull(v) == IF Truthy(v) THEN v ELSE NULL

\* isNaN(v): Number(v) is NaN.
IsNaN(v) ==
  CASE v[1] = "undefined" -> TRUE
    [] v[1] = "null" -> FALSE
    [] v[1] = "number" -> v[2] = "NaN"
    [] v[1] = "string" -> v[2] # "" /\ v[2] \notin NumTexts
    [] OTHER -> TRUE

\* A text that begins with digits and goes on with something else.
DigitsThenText == "1x"

\* A text that reads as SQL: a condition true of every row.
ConditionText == "2 OR 1=1"

\* parseInt(v) of a path parameter (a string): the number its leading digits
\* spell, NaN when it has none.
ParseInt(v) ==
  CASE v[2] \in NumTexts -> <<"number", v[2]>>
    [] v[2] = DigitsThenText -> <<"number", "1">>
    [] v[2] = ConditionText -> <<"number", "2">>
    [] OTHER -> <<"number", "NaN">>

\* A value bound to a ? placeholder (SqlString.escape of the mysql driver):
\* undefined and null become NULL, a number a numeric literal, a string a
\* quoted and escaped string literal.
Bind(v) == IF v[1] \in {"undefined", "null"} THEN NULL ELSE v

\* Texts with a character that means something inside a quoted literal: a
\* single quote, which ends the literal, and a backslash, which starts an
\* escape sequence (\z reads as z).
QuoteText == "o'k"
EscapeText == "a\\z"
MetaTexts == {QuoteText, EscapeText}

\* '${v}' inside the statement text: the string literal the server reads
\* between the quotes.  A quote in String(v) ends the literal early and what
\* follows is no SQL; a backslash is taken with the character after it.
Quoted(v) ==
  CASE ToStr(v) = QuoteText -> SqlError
    [] ToStr(v) = EscapeText -> S("az")
    [] OTHER -> S(ToStr(v))

\* What a column of the given type stores for a literal; SqlError when the
\* server rejects it (a non-numeric string for an integer column under a
\* strict sql_mode; without it the column stores 0).
Coerce(type, lit, strict) ==
  CASE lit[1] = "null" -> NULL
    [] type = "string" -> S(lit[2])
    [] lit[2] \in NumTexts -> <<"number", lit[2]>>
    [] OTHER -> IF strict THEN SqlError ELSE N(0)

(***************************************************************************)
(* The schema: primary key and the columns kept, with their types.         *)
(***************************************************************************)
Pk(e) ==
  CASE e = "Church" -> "churchId"
    [] e = "Person" -> "personId"
    [] e = "Stats" -> "statsId"
    [] e = "User" -> "userId"
    [] e = "Calendar" -> "id"
    [] e = "Assets" -> "asset_id"
    [] e = "Locations" -> "location_id"

Columns(e) ==
  CASE e = "Church" -> [churchName |-> "string", pastorId |-> "int"]
    [] e = "Person" -> [name |-> "string", churchId |-> "int"]
    [] e = "Stats" -> [adult |-> "int"]
    [] e = "User" -> [username |-> "string", password |-> "string"]
    [] e = "Calendar" -> [name |-> "string"]
    [] e = "Assets" -> [location_id |-> "int", name |-> "string", purchase_price |-> "int"]
    [] e = "Locations" -> [name |-> "string"]

\* The columns in the order the statements list them.
Fields(e) ==
  CASE e = "Church" -> <<"churchName", "pastorId">>
    [] e = "Person" -> <<"name", "churchId">>
    [] e = "Stats" -> <<"adult">>
    [] e = "User" -> <<"username", "password">>
    [] e = "Calendar" -> <<"name">>
    [] e = "Assets" -> <<"location_id", "name", "purchase_price">>
    [] e = "Locations" -> <<"name">>

(***************************************************************************)
(* The database: what a statement does to a table and what it reports.     *)
(***************************************************************************)
\* (err, result) of a callback.  err is "none" or the driver's error code.
Result(err, rows, affectedRows, insertId) ==
  [err |-> err, rows |-> rows, affectedRows |-> affectedRows, insertId |-> insertId]

Failed(code) == Result(code, <<>>, 0, 0)

\* The rows of a set in primary key order, as the driver returns them.
RECURSIVE RowsSeq(_, _)
RowsSeq(e, rows) ==
  IF rows = {} THEN <<>>
  ELSE LET first == CHOOSE x \in rows :
                      \A y \in rows : NumVal(x[Pk(e)][2]) <= NumVal(y[Pk(e)][2])
       IN <<first>> \o RowsSeq(e, rows \ {first})

\* Not a number: what parseInt yields for a parameter that is no integer.
NaN == <<"number", "NaN">>

\* What "pk = 2 OR 1=1" compares the key with: whatever the key, the
\* condition is true.
AnyKey == <<"condition", ConditionText>>

\* ${v} in the statement text, outside quotes: a numeric literal when the
\* text is a number, the rest of the condition when the text goes on as SQL;
\* any other text is no literal (an unknown column, or no SQL at all) and the
\* server rejects the statement.
Bare(v) ==
  CASE ToStr(v) \in NumTexts -> <<"number", ToStr(v)>>
    [] ToStr(v) = ConditionText -> AnyKey
    [] OTHER -> SqlError

\* A literal the server cannot evaluate: NaN reaches it as the bare word NaN.
BadLiteral(lit) == lit = SqlError \/ lit = NaN

\* The rows whose primary key compares equal to a literal: a number or a
\* numeric string matches the row of that number, anything else none.
Matching(e, lit) ==
  {x \in db[e] : lit = AnyKey \/ (lit[1] \in {"number", "string"} /\ x[Pk(e)][2] = lit[2])}

\* SELECT * FROM e WHERE pk = lit
SelectById(e, lit) ==
  IF BadLiteral(lit) THEN Failed("ER_BAD_FIELD_ERROR")
  ELSE Result("none", RowsSeq(e, Matching(e, lit)), 0, 0)

\* The row an INSERT or UPDATE stores for the literals given, column by column.
Stored(e, lits) == [c \in DOMAIN Columns(e) |-> Coerce(Columns(e)[c], lits[c], sqlStrict)]

Rejected(e, lits) == \E c \in DOMAIN Columns(e) : Stored(e, lits)[c] = SqlError

WithPk(e, id, cols) ==
  [c \in DOMAIN cols \cup {Pk(e)} |-> IF c = Pk(e) THEN id ELSE cols[c]]

\* The key of the row an INSERT adds: the literal given for the key column,
\* or the AUTO_INCREMENT counter when none is given (NULL) or it is 0.
InsertKey(e, keyLit) ==
  LET k == Coerce("int", keyLit, sqlStrict)
  IN  IF k = SqlError THEN SqlError
      ELSE IF k = NULL \/ k = N(0) THEN N(nextId[e])
      ELSE k

\* INSERT INTO e (key, columns) VALUES (keyLit, lits)
InsertResult(e, keyLit, lits) ==
  CASE keyLit = SqlError \/ (\E c \in DOMAIN Columns(e) : lits[c] = SqlError) ->
         Failed("ER_PARSE_ERROR")
    [] Rejected(e, lits) \/ InsertKey(e, keyLit) = SqlError ->
         Failed("ER_TRUNCATED_WRONG_VALUE_FOR_FIELD")
    [] OTHER ->
         IF Matching(e, InsertKey(e, keyLit)) # {} THEN Failed("ER_DUP_ENTRY")
         ELSE Result("none", <<>>, 1, NumVal(InsertKey(e, keyLit)[2]))

InsertDb(e, keyLit, lits) ==
  IF InsertResult(e, keyLit, lits).err # "none" THEN db
  ELSE [db EXCEPT ![e] = @ \cup {WithPk(e, InsertKey(e, keyLit), Stored(e, lits))}]

InsertNextId(e, keyLit, lits) ==
  LET res == InsertResult(e, keyLit, lits)
  IN  IF res.err # "none" \/ res.insertId < nextId[e] THEN nextId
      ELSE [nextId EXCEPT ![e] = res.insertId + 1]

\* UPDATE e SET columns = lits WHERE pk = key.  affectedRows counts the rows
\* matched (the driver connects with FOUND_ROWS).
UpdateResult(e, lits, key) ==
  CASE \E c \in DOMAIN Columns(e) : lits[c] = SqlError -> Failed("ER_PARSE_ERROR")
    [] BadLiteral(key) -> Failed("ER_BAD_FIELD_ERROR")
    [] Matching(e, key) # {} /\ Rejected(e, lits) ->
         Failed("ER_TRUNCATED_WRONG_VALUE_FOR_FIELD")
    [] OTHER -> Result("none", <<>>, Cardinality(Matching(e, key)), 0)

\* An UPDATE that sets the text columns and leaves the others as they were.
UpdateDbOfStrings(e, lits, key) ==
  IF UpdateResult(e, lits, key).err # "none" THEN db
  ELSE [db EXCEPT ![e] =
          {IF x \in Matching(e, key)
           THEN [c \in DOMAIN x |->
                   IF c # Pk(e) /\ Columns(e)[c] = "string" THEN Stored(e, lits)[c] ELSE x[c]]
           ELSE x :
             x \in @}]

UpdateDb(e, lits, key) ==
  IF UpdateResult(e, lits, key).err # "none" THEN db
  ELSE [db EXCEPT ![e] =
          {IF x \in Matching(e, key) THEN WithPk(e, x[Pk(e)], Stored(e, lits)) ELSE x :
             x \in @}]

\* DELETE FROM e WHERE pk = key
DeleteResult(e, key) ==
  IF BadLiteral(key) THEN Failed("ER_BAD_FIELD_ERROR")
  ELSE Result("none", <<>>, Cardinality(Matching(e, key)), 0)

DeleteDb(e, key) ==
  IF BadLiteral(key) THEN db ELSE [db EXCEPT ![e] = @ \ Matching(e, key)]

(***************************************************************************)
(* Requests and responses.                                                 *)
(***************************************************************************)
\* pool.query(sql, params, callback): the statement text, in pieces where
\* the handler interpolates values into it, and the values bound to it.
Stmt(sql, params) == [sql |-> sql, params |-> params]

\* res.status(status).json({message: ...}) and the like.  kind tells the
\* shape of the body: a message object, a row array, the driver's result
\* packet, a string, or undefined.
Response(status, kind, message, data) ==
  [status |-> status, kind |-> kind, message |-> message, data |-> data]

NewReq ==
  [pc |-> "new", route |-> "", param |-> UNDEF, body |-> <<>>,
   stmts |-> <<>>, results |-> <<>>, writes |-> <<>>, thrown |-> FALSE]

\* The request after its handler ran to the end.  A second send on a response
\* that was already sent throws ERR_HTTP_HEADERS_SENT when it has a body to
\* set headers for; res.send(undefined) sets none.
Done(route, param, body, stmts, results, writes, threw) ==
  [pc |-> "done", route |-> route, param |-> param, body |-> body,
   stmts |-> stmts, results |-> results, writes |-> writes,
   thrown |-> threw \/ \E i \in 2..Len(writes) : writes[i].kind # "undefined"]

\* Requests are taken in order: request r arrives after request r - 1.
Arrives(r) == req[r].pc = "new" /\ (IF r = 1 THEN TRUE ELSE req[r - 1].pc # "new")

\* The errors that do not depend on the statement: the connection or the
\* pool fails.
InfraErrors == {"ECONNREFUSED"}

PathIds == {S(ToString(n)) : n \in 1..MaxId}

\* What a query may fail with whatever its statement: nothing, or the
\* connection.
Fails == {"none"} \cup InfraErrors

\* The test without the count: if (err).
FailedOnly(res) == res.err # "none"

\* if (err || result.affectedRows === 0) of the handlers that test the count.
FailedOrNoRow(res) == res.err # "none" \/ res.affectedRows = 0

\* The values of a body's fields, in statement order.
Values(e, vals) == [i \in 1..Len(Fields(e)) |-> vals[Fields(e)[i]]]

\* The text of the values a handler interpolates into its statement.
Texts(e, body) == [i \in 1..Len(Fields(e)) |-> ToStr(body[Fields(e)[i]])]

(***************************************************************************)
(* Request bodies: every field present, fields zero or empty, fields       *)
(* absent, text fields with a quote or a backslash.                        *)
(***************************************************************************)
FieldValue(type, profile) ==
  CASE profile = "full" -> IF type = "string" THEN S("a") ELSE N(1)
    [] profile = "other" -> IF type = "string" THEN S("b") ELSE N(2)
    [] profile = "zero" -> IF type = "string" THEN S("") ELSE N(0)
    [] profile = "quote" -> IF type = "string" THEN S(QuoteText) ELSE N(1)
    [] profile = "escape" -> IF type = "string" THEN S(EscapeText) ELSE N(2)
    [] OTHER -> UNDEF

BodyOf(e, profile) == [c \in DOMAIN Columns(e) |-> FieldValue(Columns(e)[c], profile)]

Init ==
  /\ db = [e \in Entities |-> {}]
  /\ nextId = [e \in Entities |-> 1]
  /\ sqlStrict \in BOOLEAN
  /\ req = [r \in Reqs |-> NewReq]

(***************************************************************************)
(* Church                                                                  *)
(***************************************************************************)
\* app.get('/api/Church/:churchId')
GetChurchById(r, param, fail) ==
  LET churchId == ParseInt(param)
      stmt == Stmt(<<"SELECT * FROM Church WHERE churchId = ?">>, <<Bind(churchId)>>)
      res == IF fail # "none" THEN Failed(fail) ELSE SelectById("Church", Bind(churchId))
      writes ==
        IF res.err # "none" \/ Len(res.rows) = 0
        THEN <<Response(404, "message", <<"Church not found">>, <<>>)>>
        ELSE <<Response(200, "rows", <<>>, res.rows)>>
  IN /\ Arrives(r)
     /\ req' = [req EXCEPT ![r] =
                  Done("GET /api/Church/:churchId", param, <<>>, <<stmt>>, <<res>>, writes, FALSE)]
     /\ UNCHANGED <<db, nextId, sqlStrict>>

\* app.post('/api/Church')
PostChurch(r, body, fail) ==
  LET lits == [c \in DOMAIN Columns("Church") |-> Bind(body[c])]
      stmt == Stmt(<<"INSERT INTO Church (churchName, pastorId) VALUES (?, ?)">>,
                   <<lits.churchName, lits.pastorId>>)
      res == IF fail # "none" THEN Failed(fail) ELSE InsertResult("Church", NULL, lits)
      writes ==
        IF res.err # "none"
        THEN <<Response(400, "error", <<res.err>>, <<>>)>>
        ELSE <<Response(201, "message+result", <<"Church created successfully">>, <<res>>)>>
  IN /\ Arrives(r)
     /\ req' = [req EXCEPT ![r] =
                  Done("POST /api/Church", UNDEF, body, <<stmt>>, <<res>>, writes, FALSE)]
     /\ db' = IF fail # "none" THEN db ELSE InsertDb("Church", NULL, lits)
     /\ nextId' = IF fail # "none" THEN nextId ELSE InsertNextId("Church", NULL, lits)
     /\ UNCHANGED sqlStrict

\* app.put('/api/Church')
PutChurch(r, body, fail) ==
  LET lits == [c \in DOMAIN Columns("Church") |-> Bind(body[c])]
      key == Bind(body.churchId)
      stmt == Stmt(<<"UPDATE Church SET churchName = ?, pastorId = ? WHERE churchId = ?">>,
                   <<lits.churchName, lits.pastorId, key>>)
      res == IF fail # "none" THEN Failed(fail) ELSE UpdateResult("Church", lits, key)
      writes ==
        IF res.err # "none"
        THEN <<Response(500, "error", <<res.err>>, <<>>)>>
        ELSE <<Response(200, "message+result", <<"Church updated successfully">>, <<res>>)>>
  IN /\ Arrives(r)
     /\ req' = [req EXCEPT ![r] =
                  Done("PUT /api/Church", UNDEF, body, <<stmt>>, <<res>>, writes, FALSE)]
     /\ db' = IF fail # "none" THEN db ELSE UpdateDb("Church", lits, key)
     /\ UNCHANGED <<nextId, sqlStrict>>

(***************************************************************************)
(* Person, Stats, User, Calendar: statements built by interpolation.       *)
(***************************************************************************)
\* GET /api/{Person,Stats,User,Calendar}/:id.  An error writes 404 and does
\* not return: send(result) follows in every case.
SelectByIdHandler(r, route, e, sql, notFound, param, fail) ==
  LET id == ParseInt(param)
      stmt == Stmt(<<sql, ToStr(id)>>, <<>>)
      res == IF fail # "none" THEN Failed(fail) ELSE SelectById(e, Bare(id))
      writes ==
        IF res.err # "none"
        THEN <<Response(404, "message", <<notFound>>, <<>>),
               Response(200, "undefined", <<>>, <<>>)>>
        ELSE <<Response(200, "rows", <<>>, res.rows)>>
  IN /\ Arrives(r)
     /\ req' = [req EXCEPT ![r] = Done(route, param, <<>>, <<stmt>>, <<res>>, writes, FALSE)]
     /\ UNCHANGED <<db, nextId, sqlStrict>>

\* app.get('/api/Person/:id')
GetPersonById(r, param, fail) ==
  SelectByIdHandler(r, "GET /api/Person/:id", "Person",
                    "select * from Person where personId=", "Person not found", param, fail)

\* app.get('/api/Stats/:id')
GetStatsById(r, param, fail) ==
  SelectByIdHandler(r, "GET /api/Stats/:id", "Stats",
                    "select * from Stats where statsId=", "Stats not found", param, fail)

\* app.get('/api/User/:id')
GetUserById(r, param, fail) ==
  SelectByIdHandler(r, "GET /api/User/:id", "User",
                    "select * from User where userId=", "User not found", param, fail)

\* app.get('/api/Calendar/:id')
GetCalendarById(r, param, fail) ==
  SelectByIdHandler(r, "GET /api/Calendar/:id", "Calendar",
                    "select * from Calendar where Id=", "Calendar event not found", param, fail)

\* POST /api/{Person,Stats,User,Calendar}: every value goes into the
\* statement as '${value}'.  On an error the callback returns it to the
\* driver and writes nothing.
InsertHandler(r, route, e, sql, keyLit, body, fail) ==
  LET lits == [c \in DOMAIN Columns(e) |-> Quoted(body[c])]
      keyText == IF keyLit = NULL THEN <<>> ELSE <<keyLit[2]>>
      stmt == Stmt(<<sql>> \o keyText \o Texts(e, body), <<>>)
      res == IF fail # "none" THEN Failed(fail) ELSE InsertResult(e, keyLit, lits)
      writes ==
        IF res.err # "none" THEN <<>> ELSE <<Response(200, "packet", <<>>, <<res>>)>>
  IN /\ Arrives(r)
     /\ req' = [req EXCEPT ![r] = Done(route, UNDEF, body, <<stmt>>, <<res>>, writes, FALSE)]
     /\ db' = IF fail # "none" THEN db ELSE InsertDb(e, keyLit, lits)
     /\ nextId' = IF fail # "none" THEN nextId ELSE InsertNextId(e, keyLit, lits)
     /\ UNCHANGED sqlStrict

\* app.post('/api/Person'): personId is one of the values inserted.
PostPerson(r, body, fail) ==
  InsertHandler(r, "POST /api/Person", "Person",
                "INSERT INTO Person (personId, name, churchId) VALUES ",
                Quoted(body.personId), body, fail)

\* app.post('/api/Stats')
PostStats(r, body, fail) ==
  InsertHandler(r, "POST /api/Stats", "Stats", "INSERT INTO Stats (adult) VALUES ",
                NULL, body, fail)

\* app.post('/api/User')
PostUser(r, body, fail) ==
  InsertHandler(r, "POST /api/User", "User", "INSERT INTO User (username, password) VALUES ",
                NULL, body, fail)

\* app.post('/api/Calendar')
PostCalendar(r, body, fail) ==
  InsertHandler(r, "POST /api/Calendar", "Calendar", "INSERT INTO Calendar (name) VALUES ",
                NULL, body, fail)

\* PUT /api/Person/{id}, /api/Stats, /api/User/{id}: the row is named by the
\* body.  The handlers of Person and User take (request, res) and write to
\* `response`, which is not defined: the callback throws a ReferenceError
\* after the statement ran.
UpdateHandler(r, route, e, sql, responseDefined, body, fail) ==
  LET lits == [c \in DOMAIN Columns(e) |-> Quoted(body[c])]
      key == Quoted(body[Pk(e)])
      stmt == Stmt(<<sql>> \o Texts(e, body) \o <<ToStr(body[Pk(e)])>>, <<>>)
      res == IF fail # "none" THEN Failed(fail) ELSE UpdateResult(e, lits, key)
      writes ==
        IF res.err # "none" \/ ~responseDefined THEN <<>>
        ELSE <<Response(200, "packet", <<>>, <<res>>)>>
  IN /\ Arrives(r)
     /\ req' = [req EXCEPT ![r] =
                  Done(route, UNDEF, body, <<stmt>>, <<res>>, writes,
                       res.err = "none" /\ ~responseDefined)]
     /\ db' = IF fail # "none" THEN db ELSE UpdateDb(e, lits, key)
     /\ UNCHANGED <<nextId, sqlStrict>>

\* app.put('/api/Person/{id}')
PutPerson(r, body, fail) ==
  UpdateHandler(r, "PUT /api/Person/{id}", "Person",
                "UPDATE Person SET name, churchId WHERE personId=",
                FALSE, body, fail)

\* app.put('/api/Stats')
PutStats(r, body, fail) ==
  UpdateHandler(r, "PUT /api/Stats", "Stats", "UPDATE Stats SET adult WHERE statsId=",
                TRUE, body, fail)

\* app.put('/api/User/{id}')
PutUser(r, body, fail) ==
  UpdateHandler(r, "PUT /api/User/{id}", "User",
                "UPDATE User SET username, password WHERE userId=",
                FALSE, body, fail)

\* app.put('/api/Calendar/{id}'): the statement reads "SET ... dayTo='..')
\* VALUES WHERE id='..'", which is not SQL: the server rejects it whatever
\* the values, and the callback returns the error without a response.
PutCalendar(r, body, fail) ==
  LET stmt == Stmt(<<"UPDATE Calendar SET name ) VALUES WHERE id=">>
                     \o Texts("Calendar", body) \o <<ToStr(body.id)>>, <<>>)
      res == IF fail # "none" THEN Failed(fail) ELSE Failed("ER_PARSE_ERROR")
  IN /\ Arrives(r)
     /\ req' = [req EXCEPT ![r] =
                  Done("PUT /api/Calendar/{id}", UNDEF, body, <<stmt>>, <<res>>, <<>>, FALSE)]
     /\ UNCHANGED <<db, nextId, sqlStrict>>

(***************************************************************************)
(* Login                                                                   *)
(***************************************************************************)
\* a == b between a stored column value and a value of the request body.
LooseEq(a, b) ==
  CASE a[1] = b[1] -> a[2] = b[2]
    [] a[1] \in {"null", "undefined"} -> b[1] \in {"null", "undefined"}
    [] b[1] \in {"null", "undefined"} -> FALSE
    [] a[1] = "string" /\ b[1] = "number" -> a[2] = b[2] \/ (a[2] = "" /\ b[2] = "0")
    [] a[1] = "number" /\ b[1] = "string" -> a[2] = b[2] \/ (b[2] = "" /\ a[2] = "0")
    [] OTHER -> FALSE

\* username = lit in the WHERE clause: strings compare as text; against a
\* number the column is converted to a number, a non-numeric text to 0.
SqlEq(text, lit) ==
  CASE lit[1] = "string" -> text = lit[2]
    [] lit[1] = "number" -> IF text \in NumTexts THEN text = lit[2] ELSE lit[2] = "0"
    [] OTHER -> FALSE

\* select password from User where username=lit
SelectPassword(lit) ==
  LET rows == RowsSeq("User", {x \in db.User : SqlEq(x.username[2], lit)})
  IN  Result("none", [i \in 1..Len(rows) |-> [password |-> rows[i].password]], 0, 0)

\* app.post('/Login/')
Login(r, body, fail) ==
  LET username == body.username
      password == body.password
      \* The driver takes a values argument of undefined or null for no
      \* values: the ? stays in the statement.
      params == IF username[1] \in {"undefined", "null"} THEN <<>> ELSE <<Bind(username)>>
      stmt == Stmt(<<"select password from User where username=?">>, params)
      res == CASE fail # "none" -> Failed(fail)
               [] params = <<>> -> Failed("ER_PARSE_ERROR")
               [] OTHER -> SelectPassword(Bind(username))
      \* JSON.parse(JSON.stringify(undefined)) throws a SyntaxError;
      \* res == [] is false of every array; res[0].password of an empty
      \* array throws a TypeError.
      threw == res.err # "none" \/ Len(res.rows) = 0
      writes ==
        CASE threw -> <<>>
          [] ~LooseEq(res.rows[1].password, password) ->
               <<Response(401, "text", <<"Unaurthorized, invalid password">>, <<>>),
                 Response(200, "text", <<"Auth Successfully, Access Granted!!">>, <<>>)>>
          [] OTHER -> <<Response(200, "text", <<"Auth Successfully, Access Granted!!">>, <<>>)>>
  IN /\ Arrives(r)
     /\ req' = [req EXCEPT ![r] =
                  Done("POST /Login/", UNDEF, body, <<stmt>>, <<res>>, writes, threw)]
     /\ UNCHANGED <<db, nextId, sqlStrict>>

(***************************************************************************)
(* Assets                                                                  *)
(***************************************************************************)
\* app.get('/api/Assets/:id'): 404 on an error or an empty result, without
\* a return: send(result) follows.
GetAssetsById(r, param, fail) ==
  LET assetId == ParseInt(param)
      stmt == Stmt(<<"select * from Assets where asset_id=", ToStr(assetId)>>, <<>>)
      res == IF fail # "none" THEN Failed(fail) ELSE SelectById("Assets", Bare(assetId))
      notFound == Response(404, "message", <<"Asset not found">>, <<>>)
      writes ==
        CASE res.err # "none" -> <<notFound, Response(200, "undefined", <<>>, <<>>)>>
          [] Len(res.rows) = 0 -> <<notFound, Response(200, "rows", <<>>, res.rows)>>
          [] OTHER -> <<Response(200, "rows", <<>>, res.rows)>>
  IN /\ Arrives(r)
     /\ req' = [req EXCEPT ![r] =
                  Done("GET /api/Assets/:id", param, <<>>, <<stmt>>, <<res>>, writes, FALSE)]
     /\ UNCHANGED <<db, nextId, sqlStrict>>

\* The lookup without its WHERE clause: the name of every location.
SelectLocationNameOfAny(lit) ==
  LET rows == RowsSeq("Locations", db.Locations)
  IN  Result("none", [i \in 1..Len(rows) |-> [name |-> rows[i].name]], 0, 0)

\* SELECT name FROM Locations WHERE location_id = lit
SelectLocationName(lit) ==
  LET rows == RowsSeq("Locations", Matching("Locations", lit))
  IN  Result("none", [i \in 1..Len(rows) |-> [name |-> rows[i].name]], 0, 0)

\* A test of the lookup that lets every result pass.
NoLocationNever(res) == FALSE

\* if (!locationResult || locationResult.length === 0)
NoLocation(res) == Len(res.rows) = 0

\* The values of the INSERT of app.post('/api/Assets').
AssetValues(body) ==
  [location_id |-> Bind(body.location_id),
   name |-> Bind(body.name),
   purchase_price |-> Bind(OrNull(body.purchase_price))]

\* app.post('/api/Assets'), to the callback of the location lookup, which
\* hands the INSERT to the pool.
PostAssets(r, body, fail) ==
  LET location_id == body.location_id
      lookup == Stmt(<<"SELECT name FROM Locations WHERE location_id = ?">>,
                     <<Bind(location_id)>>)
      insert == Stmt(<<"INSERT INTO Assets (location_id, name, purchase_price) VALUES (?, ?, ?)">>,
                     Values("Assets", AssetValues(body)))
      res == IF fail # "none" THEN Failed(fail) ELSE SelectLocationName(Bind(location_id))
      route == "POST /api/Assets"
  IN /\ Arrives(r)
     /\ req' = [req EXCEPT ![r] =
          CASE ~Truthy(location_id) \/ IsNaN(location_id) ->
                 Done(route, UNDEF, body, <<>>, <<>>,
                      <<Response(400, "message", <<"Invalid or missing location_id">>, <<>>)>>,
                      FALSE)
            [] res.err # "none" ->
                 Done(route, UNDEF, body, <<lookup>>, <<res>>,
                      <<Response(500, "message", <<"Database error">>, <<>>)>>, FALSE)
            [] NoLocation(res) ->
                 Done(route, UNDEF, body, <<lookup>>, <<res>>,
                      <<Response(404, "message", <<"Invalid location ID">>, <<>>)>>, FALSE)
            [] OTHER ->
                 [pc |-> "insert", route |-> route, param |-> UNDEF, body |-> body,
                  stmts |-> <<lookup, insert>>, results |-> <<res>>, writes |-> <<>>,
                  thrown |-> FALSE]]
     /\ UNCHANGED <<db, nextId, sqlStrict>>

\* app.post('/api/Assets'): the INSERT and its callback.
PostAssetsInsert(r, fail) ==
  LET body == req[r].body
      location_name == req[r].results[1].rows[1].name
      res == IF fail # "none" THEN Failed(fail)
             ELSE InsertResult("Assets", NULL, AssetValues(body))
      writes ==
        IF res.err # "none"
        THEN <<Response(500, "message+error", <<"Error adding asset", res.err>>, <<>>)>>
        ELSE <<Response(200, "message+assetId",
                        <<"Asset '", ToStr(body.name), "' added successfully at location '",
                          ToStr(location_name), "'">>, <<res>>)>>
  IN /\ req[r].pc = "insert"
     /\ req' = [req EXCEPT ![r] =
                  Done(req[r].route, UNDEF, body, req[r].stmts,
                       Append(req[r].results, res), writes, FALSE)]
     /\ db' = IF fail # "none" THEN db ELSE InsertDb("Assets", NULL, AssetValues(body))
     /\ nextId' = IF fail # "none" THEN nextId
                  ELSE InsertNextId("Assets", NULL, AssetValues(body))
     /\ UNCHANGED sqlStrict

\* app.put('/api/Assets/:id'): the statement names the column condition
\* without the backticks the INSERT of app.post('/api/Assets') gives it;
\* CONDITION is a reserved word, so the server rejects the statement
\* whatever the values and no row changes.
PutAssets(r, param, body, fail) ==
  LET stmt == Stmt(<<"UPDATE Assets SET location_id, name, purchase_price, condition WHERE asset_id=">>
                     \o Texts("Assets", body) \o <<ToStr(param)>>, <<>>)
      res == IF fail # "none" THEN Failed(fail) ELSE Failed("ER_PARSE_ERROR")
      writes ==
        IF res.err # "none" \/ res.affectedRows = 0
        THEN <<Response(404, "message", <<"Asset not found">>, <<>>)>>
        ELSE <<Response(200, "packet", <<>>, <<res>>)>>
  IN /\ Arrives(r)
     /\ req' = [req EXCEPT ![r] =
                  Done("PUT /api/Assets/:id", param, body, <<stmt>>, <<res>>, writes, FALSE)]
     /\ UNCHANGED <<db, nextId, sqlStrict>>

(***************************************************************************)
(* Locations                                                               *)
(***************************************************************************)
\* app.post('/api/Locations')
PostLocations(r, body, fail) ==
  LET lits == [c \in DOMAIN Columns("Locations") |-> Bind(body[c])]
      stmt == Stmt(<<"INSERT INTO Locations (name) VALUES (?)">>, Values("Locations", lits))
      res == IF fail # "none" THEN Failed(fail) ELSE InsertResult("Locations", NULL, lits)
      writes ==
        IF res.err # "none"
        THEN <<Response(400, "message", <<res.err>>, <<>>)>>
        ELSE <<Response(201, "message+result", <<"Location added successfully">>, <<res>>)>>
  IN /\ Arrives(r)
     /\ req' = [req EXCEPT ![r] =
                  Done("POST /api/Locations", UNDEF, body, <<stmt>>, <<res>>, writes, FALSE)]
     /\ db' = IF fail # "none" THEN db ELSE InsertDb("Locations", NULL, lits)
     /\ nextId' = IF fail # "none" THEN nextId ELSE InsertNextId("Locations", NULL, lits)
     /\ UNCHANGED sqlStrict

\* An Update that reads the row before it writes it: two statements.
PutLocationsAfterSelect(r, param, body, fail) ==
  LET locationId == ParseInt(param)
      lits == [c \in DOMAIN Columns("Locations") |-> Bind(body[c])]
      select == Stmt(<<"SELECT * FROM Locations WHERE location_id = ?">>, <<Bind(locationId)>>)
      stmt == Stmt(<<"UPDATE Locations SET name = ? WHERE location_id = ?">>,
                   Values("Locations", lits) \o <<Bind(locationId)>>)
      res == IF fail # "none" THEN Failed(fail)
             ELSE UpdateResult("Locations", lits, Bind(locationId))
      writes ==
        IF res.err # "none" \/ res.affectedRows = 0
        THEN <<Response(404, "message", <<"Location not found or update failed">>, <<>>)>>
        ELSE <<Response(200, "message+result", <<"Location updated successfully">>, <<res>>)>>
  IN /\ Arrives(r)
     /\ req' = [req EXCEPT ![r] =
                  Done("PUT /api/Locations/:id", param, body, <<select, stmt>>,
                       <<SelectById("Locations", Bind(locationId)), res>>, writes, FALSE)]
     /\ db' = IF fail # "none" THEN db ELSE UpdateDb("Locations", lits, Bind(locationId))
     /\ UNCHANGED <<nextId, sqlStrict>>

\* app.put('/api/Locations/:id')
PutLocations(r, param, body, fail) ==
  LET locationId == ParseInt(param)
      lits == [c \in DOMAIN Columns("Locations") |-> Bind(body[c])]
      stmt == Stmt(<<"UPDATE Locations SET name = ? WHERE location_id = ?">>,
                   Values("Locations", lits) \o <<Bind(locationId)>>)
      res == IF fail # "none" THEN Failed(fail)
             ELSE UpdateResult("Locations", lits, Bind(locationId))
      writes ==
        IF res.err # "none" \/ res.affectedRows = 0
        THEN <<Response(404, "message", <<"Location not found or update failed">>, <<>>)>>
        ELSE <<Response(200, "message+result", <<"Location updated successfully">>, <<res>>)>>
  IN /\ Arrives(r)
     /\ req' = [req EXCEPT ![r] =
                  Done("PUT /api/Locations/:id", param, body, <<stmt>>, <<res>>, writes, FALSE)]
     /\ db' = IF fail # "none" THEN db ELSE UpdateDb("Locations", lits, Bind(locationId))
     /\ UNCHANGED <<nextId, sqlStrict>>

\* app.delete('/api/Locations/:id')
DeleteLocations(r, param, fail) ==
  LET locationId == ParseInt(param)
      stmt == Stmt(<<"DELETE FROM Locations WHERE location_id = ?">>, <<Bind(locationId)>>)
      res == IF fail # "none" THEN Failed(fail) ELSE DeleteResult("Locations", Bind(locationId))
      writes ==
        IF FailedOrNoRow(res)
        THEN <<Response(404, "message", <<"Location not found">>, <<>>)>>
        ELSE <<Response(200, "message", <<"Location deleted successfully">>, <<>>)>>
  IN /\ Arrives(r)
     /\ req' = [req EXCEPT ![r] =
                  Done("DELETE /api/Locations/:id", param, <<>>, <<stmt>>, <<res>>, writes, FALSE)]
     /\ db' = IF fail # "none" THEN db ELSE DeleteDb("Locations", Bind(locationId))
     /\ UNCHANGED <<nextId, sqlStrict>>

(***************************************************************************)
(* Delete                                                                  *)
(***************************************************************************)
\* app.delete('/api/Church/:id')
DeleteChurch(r, param, fail) ==
  LET churchId == ParseInt(param)
      stmt == Stmt(<<"DELETE FROM Church WHERE churchId = ?">>, <<Bind(churchId)>>)
      res == IF fail # "none" THEN Failed(fail) ELSE DeleteResult("Church", Bind(churchId))
      writes ==
        IF FailedOrNoRow(res)
        THEN <<Response(404, "message", <<"Church not found">>, <<>>)>>
        ELSE <<Response(200, "message", <<"Church deleted successfully">>, <<>>)>>
  IN /\ Arrives(r)
     /\ req' = [req EXCEPT ![r] =
                  Done("DELETE /api/Church/:id", param, <<>>, <<stmt>>, <<res>>, writes, FALSE)]
     /\ db' = IF fail # "none" THEN db ELSE DeleteDb("Church", Bind(churchId))
     /\ UNCHANGED <<nextId, sqlStrict>>

\* What Express answers to a request that no route matches: 404 and a page
\* "Cannot DELETE /api/Person/1".  route names the route the request was
\* meant for, param the path segment it sent.
NoRoute(route, param) ==
  Done(route, param, <<>>, <<>>, <<>>,
       <<Response(404, "html", <<"Cannot ", route, ToStr(param)>>, <<>>)>>, FALSE)

\* DELETE /api/Person/{id}, /api/Stats/:{statsId}, /api/User/{id},
\* /api/Calendar/{id}.  The braces are no parameter of an Express route (and
\* :{ names none): the route matches the path spelled that way and no other,
\* and req.params.id is undefined, which goes into the statement as the word
\* undefined.  An error writes 404 and does not return: send(result) follows.
DeleteByLiteralPath(r, route, e, sql, parses, notFound, literal, path, fail) ==
  LET id == UNDEF
      stmt == Stmt(<<sql, ToStr(id)>>, <<>>)
      res == CASE fail # "none" -> Failed(fail)
               [] ~parses -> Failed("ER_PARSE_ERROR")
               [] OTHER -> DeleteResult(e, Bare(id))
      writes ==
        IF res.err # "none"
        THEN <<Response(404, "message", <<notFound>>, <<>>),
               Response(200, "undefined", <<>>, <<>>)>>
        ELSE <<Response(200, "packet", <<>>, <<res>>)>>
  IN /\ Arrives(r)
     /\ req' = [req EXCEPT ![r] =
                  IF path # literal THEN NoRoute(route, path)
                  ELSE Done(route, path, <<>>, <<stmt>>, <<res>>, writes, FALSE)]
     /\ db' = IF path # literal \/ fail # "none" \/ ~parses THEN db ELSE DeleteDb(e, Bare(id))
     /\ UNCHANGED <<nextId, sqlStrict>>

\* app.delete('/api/Person/{id}')
DeletePerson(r, path, fail) ==
  DeleteByLiteralPath(r, "DELETE /api/Person/{id}", "Person",
                      "delete from Person where personId=", TRUE, "Person not found",
                      S("{id}"), path, fail)

\* app.delete('/api/Stats/:{statsId}'): "delete * from" is not SQL.
DeleteStats(r, path, fail) ==
  DeleteByLiteralPath(r, "DELETE /api/Stats/:{statsId}", "Stats",
                      "delete * from Stats where statsId=", FALSE, "Stats not found",
                      S(":{statsId}"), path, fail)

\* app.delete('/api/User/{id}')
DeleteUser(r, path, fail) ==
  DeleteByLiteralPath(r, "DELETE /api/User/{id}", "User",
                      "delete from User where userId=", TRUE, "User not found",
                      S("{id}"), path, fail)

\* app.delete('/api/Calendar/{id}')
DeleteCalendar(r, path, fail) ==
  DeleteByLiteralPath(r, "DELETE /api/Calendar/{id}", "Calendar",
                      "delete from Calendar where id=", TRUE, "Calendar not found",
                      S("{id}"), path, fail)

\* app.delete('/api/Assets/:id'): req.params.id goes into the statement as
\* it came.
DeleteAssets(r, param, fail) ==
  LET assetId == param
      stmt == Stmt(<<"DELETE FROM Assets WHERE asset_id=", ToStr(assetId)>>, <<>>)
      res == IF fail # "none" THEN Failed(fail) ELSE DeleteResult("Assets", Bare(assetId))
      writes ==
        IF FailedOrNoRow(res)
        THEN <<Response(404, "message", <<"Asset not found">>, <<>>)>>
        ELSE <<Response(200, "packet", <<>>, <<res>>)>>
  IN /\ Arrives(r)
     /\ req' = [req EXCEPT ![r] =
                  Done("DELETE /api/Assets/:id", param, <<>>, <<stmt>>, <<res>>, writes, FALSE)]
     /\ db' = IF fail # "none" THEN db ELSE DeleteDb("Assets", Bare(assetId))
     /\ UNCHANGED <<nextId, sqlStrict>>

(***************************************************************************)
(* List                                                                    *)
(***************************************************************************)
\* A SELECT that fails where the table has no row.
SelectAllOfSome(e) ==
  IF db[e] = {} THEN Failed("ER_EMPTY_QUERY") ELSE Result("none", RowsSeq(e, db[e]), 0, 0)

\* SELECT * FROM e
SelectAll(e) == Result("none", RowsSeq(e, db[e]), 0, 0)

\* app.get('/api/Church') and app.get('/api/Locations'): an error is answered
\* 500 with err.message (under the key error for Church, message for
\* Locations).  The code of the error stands for its text.
ListOr500(r, route, e, sql, key, fail) ==
  LET stmt == Stmt(<<sql>>, <<>>)
      res == IF fail # "none" THEN Failed(fail) ELSE SelectAll(e)
      writes ==
        IF res.err # "none" THEN <<Response(500, key, <<res.err>>, <<>>)>>
        ELSE <<Response(200, "rows", <<>>, res.rows)>>
  IN /\ Arrives(r)
     /\ req' = [req EXCEPT ![r] = Done(route, UNDEF, <<>>, <<stmt>>, <<res>>, writes, FALSE)]
     /\ UNCHANGED <<db, nextId, sqlStrict>>

\* app.get('/api/Church')
GetChurch(r, fail) ==
  ListOr500(r, "GET /api/Church", "Church", "SELECT * FROM Church", "error", fail)

\* app.get('/api/Locations')
GetLocations(r, fail) ==
  ListOr500(r, "GET /api/Locations", "Locations", "SELECT * FROM Locations", "message", fail)

\* GET /api/{Person,Stats,User,Calendar,Assets}: on an error the callback
\* returns it to the driver and writes nothing.
ListHandler(r, route, e, sql, fail) ==
  LET stmt == Stmt(<<sql>>, <<>>)
      res == IF fail # "none" THEN Failed(fail) ELSE SelectAll(e)
      writes ==
        IF res.err # "none" THEN <<>> ELSE <<Response(200, "rows", <<>>, res.rows)>>
  IN /\ Arrives(r)
     /\ req' = [req EXCEPT ![r] = Done(route, UNDEF, <<>>, <<stmt>>, <<res>>, writes, FALSE)]
     /\ UNCHANGED <<db, nextId, sqlStrict>>

\* app.get('/api/Person')
GetPerson(r, fail) == ListHandler(r, "GET /api/Person", "Person", "select * from Person", fail)

\* app.get('/api/Stats')
GetStats(r, fail) == ListHandler(r, "GET /api/Stats", "Stats", "select * from Stats", fail)

\* app.get('/api/User')
GetUser(r, fail) == ListHandler(r, "GET /api/User", "User", "select * from User", fail)

\* app.get('/api/Calendar')
GetCalendar(r, fail) ==
  ListHandler(r, "GET /api/Calendar", "Calendar", "select * from Calendar", fail)

\* app.get('/api/Assets')
GetAssets(r, fail) == ListHandler(r, "GET /api/Assets", "Assets", "select * from Assets", fail)

(***************************************************************************)
(* Inputs and specifications.                                              *)
(***************************************************************************)
BodiesOf(e, profiles) == {BodyOf(e, p) : p \in profiles}

\* Bodies that name the row they are about: {personId, ...}
KeyedBodies(e, keys, profiles) == {WithPk(e, k, b) : k \in keys, b \in BodiesOf(e, profiles)}

BodyIds == {N(n) : n \in 1..MaxId}

AssetBodies(locations, profiles) ==
  {[b EXCEPT !.location_id = l] : l \in locations, b \in BodiesOf("Assets", profiles)}

LoginBodies == [username : {S("a"), S("b")}, password : {S("a"), S("b")}]

\* Create and GetByID of every entity.
NextRead ==
  \E r \in Reqs :
    \/ \E p \in PathIds, f \in Fails : GetChurchById(r, p, f)
    \/ \E p \in PathIds, f \in Fails : GetPersonById(r, p, f)
    \/ \E p \in PathIds, f \in Fails : GetStatsById(r, p, f)
    \/ \E p \in PathIds, f \in Fails : GetUserById(r, p, f)
    \/ \E p \in PathIds, f \in Fails : GetCalendarById(r, p, f)
    \/ \E p \in PathIds, f \in Fails : GetAssetsById(r, p, f)
    \/ \E b \in BodiesOf("Church", {"full", "zero", "absent"}) : PostChurch(r, b, "none")
    \/ \E b \in KeyedBodies("Person", {N(1), UNDEF}, {"full", "zero", "absent"}) :
         PostPerson(r, b, "none")
    \/ \E b \in BodiesOf("Stats", {"full", "zero", "absent"}) : PostStats(r, b, "none")
    \/ \E b \in BodiesOf("User", {"full", "zero", "absent"}) : PostUser(r, b, "none")
    \/ \E b \in BodiesOf("Calendar", {"full", "zero", "absent"}) : PostCalendar(r, b, "none")
    \/ \E b \in BodiesOf("Locations", {"full"}) : PostLocations(r, b, "none")
    \/ \E b \in AssetBodies({N(1)}, {"full", "zero", "absent"}) : PostAssets(r, b, "none")
    \/ PostAssetsInsert(r, "none")

SpecRead == Init /\ [][NextRead]_vars

\* Create and Update of every entity.
NextUpdate ==
  \E r \in Reqs :
    \/ \E b \in BodiesOf("Church", {"full"}) : PostChurch(r, b, "none")
    \/ \E b \in KeyedBodies("Person", {UNDEF}, {"full"}) : PostPerson(r, b, "none")
    \/ \E b \in BodiesOf("Stats", {"full"}) : PostStats(r, b, "none")
    \/ \E b \in BodiesOf("User", {"full"}) : PostUser(r, b, "none")
    \/ \E b \in BodiesOf("Calendar", {"full"}) : PostCalendar(r, b, "none")
    \/ \E b \in BodiesOf("Locations", {"full"}) : PostLocations(r, b, "none")
    \/ \E b \in AssetBodies({N(1)}, {"full"}) : PostAssets(r, b, "none")
    \/ PostAssetsInsert(r, "none")
    \/ \E b \in KeyedBodies("Church", BodyIds, {"other"}), f \in Fails : PutChurch(r, b, f)
    \/ \E b \in KeyedBodies("Person", BodyIds, {"other"}), f \in Fails : PutPerson(r, b, f)
    \/ \E b \in KeyedBodies("Stats", BodyIds, {"other"}), f \in Fails : PutStats(r, b, f)
    \/ \E b \in KeyedBodies("User", BodyIds, {"other"}), f \in Fails : PutUser(r, b, f)
    \/ \E b \in KeyedBodies("Calendar", BodyIds, {"other"}), f \in Fails : PutCalendar(r, b, f)
    \/ \E p \in PathIds, b \in AssetBodies({N(1)}, {"other"}), f \in Fails :
         PutAssets(r, p, b, f)
    \/ \E p \in PathIds, b \in BodiesOf("Locations", {"other"}), f \in Fails :
         PutLocations(r, p, b, f)

SpecUpdate == Init /\ [][NextUpdate]_vars

\* Users and logins.
NextLogin ==
  \E r \in Reqs :
    \/ \E b \in BodiesOf("User", {"full", "other", "absent"}), f \in Fails : PostUser(r, b, f)
    \/ \E b \in LoginBodies, f \in Fails : Login(r, b, f)

SpecLogin == Init /\ [][NextLogin]_vars

\* Assets and the locations they name.  The connection fails only under
\* POST /api/Assets: a failed request of another route changes nothing.
NextAssets ==
  \E r \in Reqs :
    \/ \E b \in BodiesOf("Locations", {"full"}) : PostLocations(r, b, "none")
    \/ \E p \in PathIds, b \in BodiesOf("Locations", {"other"}) : PutLocations(r, p, b, "none")
    \/ \E p \in PathIds : DeleteLocations(r, p, "none")
    \/ \E b \in AssetBodies(BodyIds \cup {N(0), S("1"), S("x"), UNDEF}, {"full"})
                 \cup AssetBodies({N(1)}, {"zero", "absent"}),
          f \in Fails :
         PostAssets(r, b, f)
    \/ \E f \in Fails : PostAssetsInsert(r, f)
    \/ \E p \in PathIds, b \in AssetBodies({N(1)}, {"other"}) : PutAssets(r, p, b, "none")

SpecAssets == Init /\ [][NextAssets]_vars

\* Create and Update with text that holds a quote or a backslash, and the
\* GetByID that reads the row back.
NextQuote ==
  \E r \in Reqs :
    \/ \E b \in BodiesOf("Church", {"full", "quote", "escape"}) : PostChurch(r, b, "none")
    \/ \E b \in KeyedBodies("Person", {UNDEF}, {"full", "quote", "escape"}) :
         PostPerson(r, b, "none")
    \/ \E b \in BodiesOf("Stats", {"full"}) : PostStats(r, b, "none")
    \/ \E b \in BodiesOf("User", {"full", "quote", "escape"}) : PostUser(r, b, "none")
    \/ \E b \in BodiesOf("Calendar", {"full", "quote", "escape"}) : PostCalendar(r, b, "none")
    \/ \E b \in BodiesOf("Locations", {"full", "quote", "escape"}) : PostLocations(r, b, "none")
    \/ \E b \in AssetBodies({N(1)}, {"full", "quote", "escape"}) : PostAssets(r, b, "none")
    \/ PostAssetsInsert(r, "none")
    \/ \E b \in KeyedBodies("Church", {N(1)}, {"quote", "escape"}) : PutChurch(r, b, "none")
    \/ \E b \in KeyedBodies("Person", {N(1)}, {"quote", "escape"}) : PutPerson(r, b, "none")
    \/ \E b \in KeyedBodies("Stats", {N(1)}, {"other"}) : PutStats(r, b, "none")
    \/ \E b \in KeyedBodies("User", {N(1)}, {"quote", "escape"}) : PutUser(r, b, "none")
    \/ \E b \in KeyedBodies("Calendar", {N(1)}, {"quote", "escape"}) : PutCalendar(r, b, "none")
    \/ \E b \in AssetBodies({N(1)}, {"quote", "escape"}) : PutAssets(r, S("1"), b, "none")
    \/ \E b \in BodiesOf("Locations", {"quote", "escape"}) : PutLocations(r, S("1"), b, "none")
    \/ GetChurchById(r, S("1"), "none")
    \/ GetPersonById(r, S("1"), "none")
    \/ GetUserById(r, S("1"), "none")
    \/ GetCalendarById(r, S("1"), "none")
    \/ GetAssetsById(r, S("1"), "none")
    \/ GetLocations(r, "none")

SpecQuote == Init /\ [][NextQuote]_vars

\* Create and Delete of every entity.  A DELETE of Person, Stats, User and
\* Calendar comes for an identifier or for the path as the route spells it.
NextDelete ==
  \E r \in Reqs :
    \/ \E b \in BodiesOf("Church", {"full"}) : PostChurch(r, b, "none")
    \/ \E b \in KeyedBodies("Person", {UNDEF}, {"full"}) : PostPerson(r, b, "none")
    \/ \E b \in BodiesOf("Stats", {"full"}) : PostStats(r, b, "none")
    \/ \E b \in BodiesOf("User", {"full"}) : PostUser(r, b, "none")
    \/ \E b \in BodiesOf("Calendar", {"full"}) : PostCalendar(r, b, "none")
    \/ \E b \in BodiesOf("Locations", {"full"}) : PostLocations(r, b, "none")
    \/ \E b \in AssetBodies({N(1)}, {"full"}) : PostAssets(r, b, "none")
    \/ PostAssetsInsert(r, "none")
    \/ \E p \in PathIds, f \in Fails : DeleteChurch(r, p, f)
    \/ \E p \in {S("1"), S("{id}")} : DeletePerson(r, p, "none")
    \/ \E p \in {S("1"), S(":{statsId}")} : DeleteStats(r, p, "none")
    \/ \E p \in {S("1"), S("{id}")} : DeleteUser(r, p, "none")
    \/ \E p \in {S("1"), S("{id}")} : DeleteCalendar(r, p, "none")
    \/ \E p \in PathIds \cup {S(ConditionText)} : DeleteAssets(r, p, "none")
    \/ \E p \in PathIds : DeleteLocations(r, p, "none")

SpecDelete == Init /\ [][NextDelete]_vars

\* Path parameters and body keys: identifiers, and texts that are none.
IdTexts == PathIds \cup {S("x"), S(DigitsThenText)}

\* GetByID, Update and Delete by identifiers and by texts that are none.
NextIds ==
  \E r \in Reqs :
    \/ \E b \in BodiesOf("Church", {"full"}) : PostChurch(r, b, "none")
    \/ \E b \in KeyedBodies("Person", {UNDEF}, {"full"}) : PostPerson(r, b, "none")
    \/ \E b \in BodiesOf("Locations", {"full"}) : PostLocations(r, b, "none")
    \/ \E b \in AssetBodies({N(1)}, {"full"}) : PostAssets(r, b, "none")
    \/ PostAssetsInsert(r, "none")
    \/ \E p \in IdTexts : GetChurchById(r, p, "none")
    \/ \E p \in IdTexts : GetPersonById(r, p, "none")
    \/ \E p \in IdTexts : GetStatsById(r, p, "none")
    \/ \E p \in IdTexts : GetUserById(r, p, "none")
    \/ \E p \in IdTexts : GetCalendarById(r, p, "none")
    \/ \E p \in IdTexts : GetAssetsById(r, p, "none")
    \/ \E b \in KeyedBodies("Church", {N(1), S("x")}, {"other"}) : PutChurch(r, b, "none")
    \/ \E b \in KeyedBodies("Person", {N(1), S("x")}, {"other"}) : PutPerson(r, b, "none")
    \/ \E b \in KeyedBodies("Stats", {N(1), S("x")}, {"other"}) : PutStats(r, b, "none")
    \/ \E b \in KeyedBodies("User", {N(1), S("x")}, {"other"}) : PutUser(r, b, "none")
    \/ \E b \in KeyedBodies("Calendar", {N(1), S("x")}, {"other"}) : PutCalendar(r, b, "none")
    \/ \E p \in IdTexts, b \in AssetBodies({N(1)}, {"other"}) : PutAssets(r, p, b, "none")
    \/ \E p \in IdTexts, b \in BodiesOf("Locations", {"other"}) : PutLocations(r, p, b, "none")
    \/ \E p \in IdTexts : DeleteChurch(r, p, "none")
    \/ \E p \in {S("x"), S("{id}")} : DeletePerson(r, p, "none")
    \/ \E p \in {S("x"), S(":{statsId}")} : DeleteStats(r, p, "none")
    \/ \E p \in {S("x"), S("{id}")} : DeleteUser(r, p, "none")
    \/ \E p \in {S("x"), S("{id}")} : DeleteCalendar(r, p, "none")
    \/ \E p \in IdTexts : DeleteAssets(r, p, "none")
    \/ \E p \in IdTexts : DeleteLocations(r, p, "none")

SpecIds == Init /\ [][NextIds]_vars

\* Two errors of the connection: one kind of error, two texts.
ConnectionErrors == InfraErrors \cup {"PROTOCOL_CONNECTION_LOST"}

FailsOfConnection == {"none"} \cup ConnectionErrors

\* List and GetByID of every entity while the connection may fail, and the
\* Creates that may fail with it.
NextList ==
  \E r \in Reqs :
    \/ \E b \in BodiesOf("Church", {"full"}), f \in FailsOfConnection : PostChurch(r, b, f)
    \/ \E b \in KeyedBodies("Person", {UNDEF}, {"full"}) : PostPerson(r, b, "none")
    \/ \E b \in BodiesOf("Locations", {"full"}), f \in FailsOfConnection :
         PostLocations(r, b, f)
    \/ \E b \in AssetBodies({N(1)}, {"full"}) : PostAssets(r, b, "none")
    \/ \E f \in FailsOfConnection : PostAssetsInsert(r, f)
    \/ \E f \in FailsOfConnection : GetChurch(r, f)
    \/ \E f \in FailsOfConnection : GetPerson(r, f)
    \/ \E f \in FailsOfConnection : GetStats(r, f)
    \/ \E f \in FailsOfConnection : GetUser(r, f)
    \/ \E f \in FailsOfConnection : GetCalendar(r, f)
    \/ \E f \in FailsOfConnection : GetAssets(r, f)
    \/ \E f \in FailsOfConnection : GetLocations(r, f)
    \/ \E f \in FailsOfConnection : GetChurchById(r, S("1"), f)
    \/ \E f \in FailsOfConnection : GetPersonById(r, S("1"), f)
    \/ \E f \in FailsOfConnection : GetStatsById(r, S("1"), f)
    \/ \E f \in FailsOfConnection : GetUserById(r, S("1"), f)
    \/ \E f \in FailsOfConnection : GetCalendarById(r, S("1"), f)
    \/ \E f \in FailsOfConnection : GetAssetsById(r, S("1"), f)

SpecList == Init /\ [][NextList]_vars

\* Updates of one row by several requests, in every order in which their
\* statements reach the database (the requests are numbered in that order).
NextRace ==
  \E r \in Reqs :
    \/ \E b \in BodiesOf("Church", {"full"}) : PostChurch(r, b, "none")
    \/ \E b \in KeyedBodies("Person", {UNDEF}, {"full"}) : PostPerson(r, b, "none")
    \/ \E b \in BodiesOf("Stats", {"full"}) : PostStats(r, b, "none")
    \/ \E b \in BodiesOf("User", {"full"}) : PostUser(r, b, "none")
    \/ \E b \in BodiesOf("Locations", {"full"}) : PostLocations(r, b, "none")
    \/ \E b \in KeyedBodies("Church", {N(1)}, {"other", "zero"}) : PutChurch(r, b, "none")
    \/ \E b \in KeyedBodies("Person", {N(1)}, {"other", "zero"}) : PutPerson(r, b, "none")
    \/ \E b \in KeyedBodies("Stats", {N(1)}, {"other", "zero"}) : PutStats(r, b, "none")
    \/ \E b \in KeyedBodies("User", {N(1)}, {"other", "zero"}) : PutUser(r, b, "none")
    \/ \E b \in BodiesOf("Locations", {"other", "zero"}) : PutLocations(r, S("1"), b, "none")

SpecRace == Init /\ [][NextRace]_vars

\* List of every entity, of tables with rows and without, the connection
\* holding or not.
NextEmpty ==
  \E r \in Reqs :
    \/ \E b \in BodiesOf("Church", {"full"}) : PostChurch(r, b, "none")
    \/ \E b \in KeyedBodies("Person", {UNDEF}, {"full"}) : PostPerson(r, b, "none")
    \/ \E b \in BodiesOf("Locations", {"full"}) : PostLocations(r, b, "none")
    \/ DeleteChurch(r, S("1"), "none")
    \/ DeleteLocations(r, S("1"), "none")
    \/ \E f \in Fails : GetChurch(r, f)
    \/ \E f \in Fails : GetPerson(r, f)
    \/ \E f \in Fails : GetStats(r, f)
    \/ \E f \in Fails : GetUser(r, f)
    \/ \E f \in Fails : GetCalendar(r, f)
    \/ \E f \in Fails : GetAssets(r, f)
    \/ \E f \in Fails : GetLocations(r, f)

SpecEmpty == Init /\ [][NextEmpty]_vars

\* Every route, each with one request: the identifier 1, a body with every
\* field, the connection holding.  POST /api/Assets comes with and without
\* its location_id, the login with a password that no user has.
NextAll ==
  \E r \in Reqs :
    \/ GetChurch(r, "none")
    \/ GetPerson(r, "none")
    \/ GetStats(r, "none")
    \/ GetUser(r, "none")
    \/ GetCalendar(r, "none")
    \/ GetAssets(r, "none")
    \/ GetLocations(r, "none")
    \/ GetChurchById(r, S("1"), "none")
    \/ GetPersonById(r, S("1"), "none")
    \/ GetStatsById(r, S("1"), "none")
    \/ GetUserById(r, S("1"), "none")
    \/ GetCalendarById(r, S("1"), "none")
    \/ GetAssetsById(r, S("1"), "none")
    \/ \E b \in BodiesOf("Church", {"full"}) : PostChurch(r, b, "none")
    \/ \E b \in KeyedBodies("Person", {N(1)}, {"full"}) : PostPerson(r, b, "none")
    \/ \E b \in BodiesOf("Stats", {"full"}) : PostStats(r, b, "none")
    \/ \E b \in BodiesOf("User", {"full"}) : PostUser(r, b, "none")
    \/ \E b \in BodiesOf("Calendar", {"full"}) : PostCalendar(r, b, "none")
    \/ \E b \in BodiesOf("Locations", {"full"}) : PostLocations(r, b, "none")
    \/ \E b \in AssetBodies({N(1), UNDEF}, {"full"}) : PostAssets(r, b, "none")
    \/ PostAssetsInsert(r, "none")
    \/ \E b \in KeyedBodies("Church", {N(1)}, {"other"}) : PutChurch(r, b, "none")
    \/ \E b \in KeyedBodies("Person", {N(1)}, {"other"}) : PutPerson(r, b, "none")
    \/ \E b \in KeyedBodies("Stats", {N(1)}, {"other"}) : PutStats(r, b, "none")
    \/ \E b \in KeyedBodies("User", {N(1)}, {"other"}) : PutUser(r, b, "none")
    \/ \E b \in KeyedBodies("Calendar", {N(1)}, {"other"}) : PutCalendar(r, b, "none")
    \/ \E b \in AssetBodies({N(1)}, {"other"}) : PutAssets(r, S("1"), b, "none")
    \/ \E b \in BodiesOf("Locations", {"other"}) : PutLocations(r, S("1"), b, "none")
    \/ DeleteChurch(r, S("1"), "none")
    \/ DeletePerson(r, S("{id}"), "none")
    \/ DeleteStats(r, S(":{statsId}"), "none")
    \/ DeleteUser(r, S("{id}"), "none")
    \/ DeleteCalendar(r, S("{id}"), "none")
    \/ DeleteAssets(r, S("1"), "none")
    \/ DeleteLocations(r, S("1"), "none")
    \/ Login(r, [username |-> S("a"), password |-> S("b")], "none")

SpecAll == Init /\ [][NextAll]_vars

\* Requests whose query the connection may fail, of handlers that answer an
\* error and of handlers that return it.
NextLive ==
  \E r \in Reqs :
    \/ \E f \in Fails : GetChurch(r, f)
    \/ \E f \in Fails : GetPerson(r, f)
    \/ \E b \in KeyedBodies("Person", {N(1)}, {"full"}), f \in Fails : PostPerson(r, b, f)
    \/ \E b \in KeyedBodies("Person", {N(1)}, {"other"}), f \in Fails : PutPerson(r, b, f)
    \/ \E b \in BodiesOf("Locations", {"full"}) : PostLocations(r, b, "none")
    \/ \E b \in AssetBodies({N(1)}, {"full"}), f \in Fails : PostAssets(r, b, f)
    \/ \E f \in Fails : PostAssetsInsert(r, f)

\* The driver completes every query it was handed and runs its callback: a
\* step that can be taken is taken.
SpecLive == Init /\ [][NextLive]_vars /\ WF_vars(NextLive)

\* Every handler modelled.
Next ==
  NextRead \/ NextUpdate \/ NextLogin \/ NextAssets \/ NextQuote \/ NextDelete \/ NextIds
    \/ NextList \/ NextRace \/ NextEmpty \/ NextAll \/ NextLive

Spec == Init /\ [][Next]_vars

(***************************************************************************)
(* The claims.                                                             *)
(***************************************************************************)
Finished(r) == req[r].pc = "done"

\* What the client receives: the first response written, if any.
Delivered(q) == IF q.writes = <<>> THEN <<>> ELSE <<q.writes[1]>>

Statuses(q) == {q.writes[i].status : i \in 1..Len(q.writes)}

GetByIdRoutes ==
  {"GET /api/Church/:churchId", "GET /api/Person/:id", "GET /api/Stats/:id",
   "GET /api/User/:id", "GET /api/Calendar/:id", "GET /api/Assets/:id"}

UpdateRoutes ==
  {"PUT /api/Church", "PUT /api/Person/{id}", "PUT /api/Stats", "PUT /api/User/{id}",
   "PUT /api/Calendar/{id}", "PUT /api/Assets/:id", "PUT /api/Locations/:id"}

\* The query of a finished request found no row, without an error.
NoRowFound(q) == q.results[1].err = "none" /\ q.results[1].rows = <<>>

\* C1: a GetByID whose query finds no row responds 404 and makes no 200
\* response, for every entity.
C1_GetByIdOfNoRowIs404 ==
  \A r \in Reqs :
    (Finished(r) /\ req[r].route \in GetByIdRoutes /\ NoRowFound(req[r]))
      => (Len(req[r].writes) > 0 /\ req[r].writes[1].status = 404 /\ 200 \notin Statuses(req[r]))

\* C2: an Update whose statement affects no row responds 404 and never 200,
\* for every entity.
C2_UpdateOfNoRowIs404 ==
  \A r \in Reqs :
    (Finished(r) /\ req[r].route \in UpdateRoutes
       /\ req[r].results[1].err = "none" /\ req[r].results[1].affectedRows = 0)
      => (Len(req[r].writes) > 0 /\ req[r].writes[1].status = 404 /\ 200 \notin Statuses(req[r]))

IsLogin(r) == Finished(r) /\ req[r].route = "POST /Login/"

\* The lookup of a login found the user and the stored password differs
\* from the one given.
WrongPassword(q) ==
  /\ q.results[1].err = "none"
  /\ q.results[1].rows # <<>>
  /\ ~LooseEq(q.results[1].rows[1].password, q.body.password)

\* C3: a login with an existing username and a wrong password writes a 401
\* response and no 200 response.
C3_WrongPasswordIs401Only ==
  \A r \in Reqs :
    (IsLogin(r) /\ WrongPassword(req[r]))
      => (Len(req[r].writes) > 0 /\ req[r].writes[1].status = 401 /\ 200 \notin Statuses(req[r]))

\* C4: a login whose lookup finds no user responds with an error status
\* (500, 404 or 401), never 200, and the handler does not fail without a
\* response.
C4_UnknownUserIsError ==
  \A r \in Reqs :
    (IsLogin(r) /\ NoRowFound(req[r]))
      => /\ Len(req[r].writes) > 0
         /\ req[r].writes[1].status \in {500, 404, 401}
         /\ 200 \notin Statuses(req[r])

\* C5: two failed logins with the same password, one for a username that
\* does not exist and one for a username whose password differs, receive the
\* same response.
C5_FailedLoginsAlike ==
  \A r1, r2 \in Reqs :
    (IsLogin(r1) /\ IsLogin(r2) /\ req[r1].body.password = req[r2].body.password
       /\ NoRowFound(req[r1]) /\ WrongPassword(req[r2]))
      => Delivered(req[r1]) = Delivered(req[r2])

\* The Locations rows whose location_id equals the one a body gives.
LocationsOf(body) == {l \in db.Locations : l.location_id[2] = body.location_id[2]}

\* Request r takes the step from its arrival to the callback of its first
\* query, on the route given.
Handles(r, route) == req[r].pc = "new" /\ req'[r].pc # "new" /\ req'[r].route = route

\* The step failed with an error of the connection, not of the statement.
ConnectionFailed(q) == q.results # <<>> /\ q.results[Len(q.results)].err \in InfraErrors

ErrorOnly(q) == Len(q.writes) = 1 /\ q.writes[1].status >= 400

\* C6: Create(Asset) with a location_id that matches no Locations row
\* responds with an error and runs no INSERT; with a location_id that matches
\* a Locations row it goes on to the INSERT, which (the connection holding)
\* adds the row and responds 200 with a message that carries the name that
\* row had at the lookup.
C6_CreateAssetChecksLocation ==
  [][\A r \in Reqs :
       /\ (Handles(r, "POST /api/Assets") /\ LocationsOf(req'[r].body) = {})
            => /\ req'[r].pc = "done"
               /\ ErrorOnly(req'[r])
               /\ Len(req'[r].stmts) <= 1
               /\ db' = db
       /\ (Handles(r, "POST /api/Assets") /\ LocationsOf(req'[r].body) # {}
             /\ ~ConnectionFailed(req'[r]))
            => /\ req'[r].pc = "insert"
               /\ \E l \in LocationsOf(req'[r].body) :
                    req'[r].results[1].rows = <<[name |-> l.name]>>
       /\ (req[r].pc = "insert" /\ req'[r].pc = "done" /\ ~ConnectionFailed(req'[r]))
            => /\ Len(req'[r].writes) = 1
               /\ req'[r].writes[1].status = 200
               /\ req'[r].writes[1].message[4] = ToStr(req[r].results[1].rows[1].name)
               /\ \E a \in db'.Assets \ db.Assets :
                    /\ a.asset_id = N(req'[r].writes[1].data[1].insertId)
                    /\ a.location_id[2] = req[r].body.location_id[2]
  ]_vars

\* A state where both cases of C6 have happened: one Create(Asset) answered
\* 200 and named its location, another was refused for its location_id.
C6_Witness ==
  \E r1, r2 \in Reqs :
    /\ Finished(r1) /\ req[r1].route = "POST /api/Assets"
    /\ Len(req[r1].writes) = 1 /\ req[r1].writes[1].status = 200
    /\ req[r1].writes[1].message[4] = "a"
    /\ Finished(r2) /\ req[r2].route = "POST /api/Assets"
    /\ Len(req[r2].results) = 1 /\ NoRowFound(req[r2])
    /\ req[r2].writes[1].status = 404

\* C7: in every state the location_id of every Assets row is the location_id
\* of a Locations row.
C7_AssetsNameLocations ==
  \A a \in db.Assets : \E l \in db.Locations : l.location_id = a.location_id

\* C8: a Delete of a Locations row that an Assets row names responds 409
\* (ConflictError) and leaves the row in place.
C8_DeleteOfNamedLocationConflicts ==
  [][\A r \in Reqs :
       (/\ Handles(r, "DELETE /api/Locations/:id")
        /\ \E a \in db.Assets : a.location_id = ParseInt(req'[r].param)
        /\ \E l \in db.Locations : l.location_id = ParseInt(req'[r].param))
         => /\ Len(req'[r].writes) = 1
            /\ req'[r].writes[1].status = 409
            /\ db'.Locations = db.Locations
  ]_vars

\* C9: Update(Asset) runs the location lookup of Create first, and an Update
\* whose location_id matches no Locations row is answered with an error and
\* changes no Assets row.
C9_UpdateAssetChecksLocation ==
  [][\A r \in Reqs :
       (Handles(r, "PUT /api/Assets/:id") /\ LocationsOf(req'[r].body) = {})
         => /\ Len(req'[r].stmts) >= 1
            /\ req'[r].stmts[1].sql = <<"SELECT name FROM Locations WHERE location_id = ?">>
            /\ ErrorOnly(req'[r])
            /\ db'.Assets = db.Assets
  ]_vars

CreateRoutes ==
  {"POST /api/Church", "POST /api/Person", "POST /api/Stats", "POST /api/User",
   "POST /api/Calendar", "POST /api/Assets", "POST /api/Locations"}

\* The entity of a route: "GET /api/Assets/:id" is about Assets.
EntityOf(route) ==
  CHOOSE e \in Entities :
    route \in {"GET /api/" \o e \o "/:id", "GET /api/" \o e \o "/:churchId", "POST /api/" \o e,
               "GET /api/" \o e, "PUT /api/" \o e, "PUT /api/" \o e \o "/{id}",
               "PUT /api/" \o e \o "/:id", "DELETE /api/" \o e \o "/:id",
               "DELETE /api/" \o e \o "/{id}", "DELETE /api/" \o e \o "/:{statsId}"}

\* The identifier a finished Create reports, 0 when it inserted nothing.
Generated(q) ==
  IF q.results # <<>> /\ q.results[Len(q.results)].err = "none"
  THEN q.results[Len(q.results)].insertId ELSE 0

\* The Create c had inserted its row when the GetByID g ran.  Requests with
\* one statement run in the order of their numbers; the INSERT of
\* Create(Asset) is a step of its own, and had run if g found the row.
InsertedBefore(c, g) ==
  IF req[c].route = "POST /api/Assets" THEN req[g].results[1].rows # <<>> ELSE c < g

\* A field read back equals the field sent: an absent field reads as null.
SameField(sent, read) == IF sent = UNDEF THEN read = NULL ELSE read = sent

\* C10: a GetByID of the identifier a Create generated returns a record whose
\* fields equal those of the payload created, zero, empty and absent fields
\* included.  (No Update or Delete runs in SpecRead: the row read is the row
\* created.)
C10_CreateThenGetRoundTrips ==
  \A c, g \in Reqs :
    (/\ Finished(c) /\ req[c].route \in CreateRoutes
     /\ Finished(g) /\ req[g].route \in GetByIdRoutes
     /\ EntityOf(req[g].route) = EntityOf(req[c].route)
     /\ req[g].results[1].err = "none"
     /\ Generated(req[c]) # 0
     /\ InsertedBefore(c, g)
     /\ ParseInt(req[g].param) = N(Generated(req[c])))
      => /\ Len(req[g].results[1].rows) = 1
         /\ \A f \in DOMAIN Columns(EntityOf(req[c].route)) :
              SameField(req[c].body[f], req[g].results[1].rows[1][f])
         /\ Len(req[g].writes) = 1
         /\ req[g].writes[1].status = 200
         /\ req[g].writes[1].data = req[g].results[1].rows

DeleteRoutes ==
  {"DELETE /api/Church/:id", "DELETE /api/Person/{id}", "DELETE /api/Stats/:{statsId}",
   "DELETE /api/User/{id}", "DELETE /api/Calendar/{id}", "DELETE /api/Assets/:id",
   "DELETE /api/Locations/:id"}

ListRoutes ==
  {"GET /api/Church", "GET /api/Person", "GET /api/Stats", "GET /api/User",
   "GET /api/Calendar", "GET /api/Assets", "GET /api/Locations"}

\* The (err, result) of the last statement a request ran.
LastResult(q) == q.results[Len(q.results)]

\* A text field of the body holds a quote or a backslash.
HasMeta(body) == \E f \in DOMAIN body : body[f][2] \in MetaTexts

\* Request r takes the step in which its INSERT or UPDATE runs.
RunsWrite(r) ==
  IF req[r].pc = "insert" THEN req'[r].pc = "done"
  ELSE \E route \in (CreateRoutes \cup UpdateRoutes) \ {"POST /api/Assets"} : Handles(r, route)

\* The identifier a request names: its path parameter, or the key field of
\* its body where the route takes none.
KeyOf(q) == IF q.param # UNDEF THEN q.param ELSE q.body[Pk(EntityOf(q.route))]

\* C11: a Create or Update whose body holds a text with a single quote or a
\* backslash runs its statement as it does for any other text (the server
\* does not reject it), and the row it writes holds every field as the body
\* gave it: the row added by a Create, every row of the key by an Update.
C11_MetacharactersStoredVerbatim ==
  [][\A r \in Reqs :
       (RunsWrite(r) /\ HasMeta(req'[r].body))
         => LET q == req'[r]
                e == EntityOf(q.route)
            IN  /\ LastResult(q).err = "none"
                /\ q.route \in CreateRoutes
                     => \E x \in db'[e] \ db[e] :
                          \A f \in DOMAIN Columns(e) : x[f] = q.body[f]
                /\ q.route \in UpdateRoutes
                     => \A x \in db'[e] :
                          x[Pk(e)][2] = ToStr(KeyOf(q))
                            => \A f \in DOMAIN Columns(e) : x[f] = q.body[f]
  ]_vars

\* C12: the statement text of a GetByID or a Delete is the same whatever the
\* identifier, and the identifier is the one value bound to the statement.
C12_IdOnlyBound ==
  \A r1, r2 \in Reqs :
    (/\ Finished(r1) /\ Finished(r2)
     /\ req[r1].route \in GetByIdRoutes \cup DeleteRoutes
     /\ req[r2].route = req[r1].route
     /\ req[r1].stmts # <<>> /\ req[r2].stmts # <<>>)
      => /\ req[r1].stmts[1].sql = req[r2].stmts[1].sql
         /\ Len(req[r1].stmts[1].params) = 1

\* C13: a DELETE for the identifier of a row of the table, the connection
\* holding, removes the row and responds 200, for each of the seven entities.
C13_DeleteOfRowIs200 ==
  [][\A r \in Reqs : \A route \in DeleteRoutes :
       (/\ Handles(r, route)
        /\ \E x \in db[EntityOf(route)] : x[Pk(EntityOf(route))][2] = ToStr(req'[r].param)
        /\ ~ConnectionFailed(req'[r]))
         => /\ Len(req'[r].writes) = 1
            /\ req'[r].writes[1].status = 200
            /\ ~\E x \in db'[EntityOf(route)] :
                  x[Pk(EntityOf(route))][2] = ToStr(req'[r].param)
  ]_vars

\* No row went with the Delete: its statement ran and affected none, or the
\* request reached no handler and no statement ran.
NoRowDeleted(q) ==
  IF q.results = <<>> THEN TRUE
  ELSE q.results[1].err = "none" /\ q.results[1].affectedRows = 0

\* C14: a Delete that affected no row is answered 404 and makes no 200
\* response, for every entity.
C14_DeleteOfNoRowIs404 ==
  \A r \in Reqs :
    (Finished(r) /\ req[r].route \in DeleteRoutes /\ NoRowDeleted(req[r]))
      => /\ Len(req[r].writes) > 0
         /\ req[r].writes[1].status = 404
         /\ 200 \notin Statuses(req[r])

\* Deletes whose statement ran and affected no row were answered 404 by the
\* Church and Assets handlers, and a DELETE /api/Person/1 by Express.
C14_Witness ==
  \E r1, r2, r3 \in Reqs :
    /\ Finished(r1) /\ req[r1].route = "DELETE /api/Church/:id"
    /\ req[r1].results[1].err = "none" /\ req[r1].results[1].affectedRows = 0
    /\ req[r1].writes[1].status = 404
    /\ Finished(r2) /\ req[r2].route = "DELETE /api/Assets/:id"
    /\ req[r2].results[1].err = "none" /\ req[r2].results[1].affectedRows = 0
    /\ req[r2].writes[1].status = 404
    /\ Finished(r3) /\ req[r3].route = "DELETE /api/Person/{id}"
    /\ req[r3].stmts = <<>> /\ req[r3].writes[1].status = 404

\* C15: a Create that inserted its row responds once, with status 201 and a
\* body of a message and the identifier generated.
C15_CreateIs201WithId ==
  \A r \in Reqs :
    (Finished(r) /\ req[r].route \in CreateRoutes /\ Generated(req[r]) # 0)
      => /\ Len(req[r].writes) = 1
         /\ req[r].writes[1].status = 201
         /\ req[r].writes[1].kind \in {"message+result", "message+assetId"}

\* C16: a Create whose body has none of the entity's fields (so lacks every
\* required one) responds 400 and inserts no row.
C16_CreateWithoutFieldsIs400 ==
  \A r \in Reqs :
    (/\ Finished(r) /\ req[r].route \in CreateRoutes
     /\ \A f \in DOMAIN Columns(EntityOf(req[r].route)) : req[r].body[f] = UNDEF)
      => /\ Len(req[r].writes) = 1
         /\ req[r].writes[1].status = 400
         /\ Generated(req[r]) = 0

\* The last statement of a request failed with an error of the connection.
ConnectionBroke(q) == q.results # <<>> /\ LastResult(q).err \in ConnectionErrors

\* C17: a List or GetByID whose query fails with an error of the connection
\* responds 500 and makes no other response.
C17_ConnectionErrorIs500 ==
  \A r \in Reqs :
    (/\ Finished(r) /\ req[r].route \in ListRoutes \cup GetByIdRoutes
     /\ ConnectionBroke(req[r]))
      => /\ Len(req[r].writes) > 0
         /\ Statuses(req[r]) = {500}

\* C18: two requests of one route whose same statement fails with an error
\* of the connection receive the same response, whatever the text of the
\* error.
C18_ResponseIgnoresErrorText ==
  \A r1, r2 \in Reqs :
    (/\ Finished(r1) /\ Finished(r2)
     /\ req[r1].route = req[r2].route
     /\ Len(req[r1].results) = Len(req[r2].results)
     /\ ConnectionBroke(req[r1]) /\ ConnectionBroke(req[r2]))
      => Delivered(req[r1]) = Delivered(req[r2])

\* The errors of a constraint: a key that a row already has.
ConstraintErrors == {"ER_DUP_ENTRY"}

\* C19: a Create whose INSERT the database rejects for a constraint is
\* answered 409 or 400, and makes no 500 response.
C19_ConstraintErrorIs409Or400 ==
  \A r \in Reqs :
    (/\ Finished(r) /\ req[r].route \in CreateRoutes
     /\ req[r].results # <<>> /\ LastResult(req[r]).err \in ConstraintErrors)
      => /\ Len(req[r].writes) > 0
         /\ req[r].writes[1].status \in {409, 400}
         /\ 500 \notin Statuses(req[r])

\* C20: a GetByID, Update or Delete whose identifier is no integer responds
\* 400 and runs no statement.
C20_NonIntegerIdIs400 ==
  \A r \in Reqs :
    (/\ Finished(r) /\ req[r].route \in GetByIdRoutes \cup UpdateRoutes \cup DeleteRoutes
     /\ ToStr(KeyOf(req[r])) \notin NumTexts)
      => /\ req[r].stmts = <<>>
         /\ Len(req[r].writes) = 1
         /\ req[r].writes[1].status = 400

\* The UPDATE of a finished request ran without error and matched a row.
Updated(q) ==
  /\ q.route \in UpdateRoutes
  /\ q.results # <<>> /\ LastResult(q).err = "none" /\ LastResult(q).affectedRows > 0

\* C21: the step in which the UPDATE of a request runs and succeeds leaves
\* the row of its key with every field as that request gave it, whatever
\* the row held from the requests before: after two Updates of one row the
\* row is the field set of the one whose statement ran last, and no mix.
C21_LastUpdateWinsWhole ==
  [][\A r \in Reqs :
       (RunsWrite(r) /\ Updated(req'[r]))
         => LET q == req'[r]
                e == EntityOf(q.route)
            IN  /\ \E x \in db'[e] : x[Pk(e)][2] = ToStr(KeyOf(q))
                /\ \A x \in db'[e] :
                     x[Pk(e)][2] = ToStr(KeyOf(q))
                       => \A f \in DOMAIN Columns(e) : SameField(q.body[f], x[f])
  ]_vars

\* Two Updates of one Church row with different fields both succeeded, and
\* the row holds the fields of the second.
C21_Witness ==
  \E r1, r2 \in Reqs :
    /\ r1 < r2
    /\ Finished(r1) /\ Finished(r2)
    /\ req[r1].route = "PUT /api/Church" /\ req[r2].route = "PUT /api/Church"
    /\ Updated(req[r1]) /\ Updated(req[r2])
    /\ req[r1].body.churchId = req[r2].body.churchId
    /\ req[r1].body.churchName # req[r2].body.churchName
    /\ req[r1].body.pastorId # req[r2].body.pastorId
    /\ req[r1].writes[1].status = 200 /\ req[r2].writes[1].status = 200
    /\ \A r3 \in Reqs : r3 > r2 => ~Finished(r3)
    /\ \E x \in db.Church :
         /\ x.churchId = req[r2].body.churchId
         /\ x.churchName = req[r2].body.churchName
         /\ x.pastorId = req[r2].body.pastorId

\* C22: a List of a table with no row, the connection holding, responds
\* once, 200 with the empty sequence, for every entity.
C22_ListOfEmptyTableIs200 ==
  [][\A r \in Reqs : \A route \in ListRoutes :
       (Handles(r, route) /\ db[EntityOf(route)] = {} /\ ~ConnectionBroke(req'[r]))
         => /\ Len(req'[r].writes) = 1
            /\ req'[r].writes[1].status = 200
            /\ req'[r].writes[1].kind = "rows"
            /\ req'[r].writes[1].data = <<>>
  ]_vars

\* A List of Church, after its one row was deleted, and a List of Person,
\* their tables empty, answered 200 with the empty sequence.
C22_Witness ==
  \E r1, r2, r3 \in Reqs :
    /\ db.Church = {} /\ db.Person = {}
    /\ r3 < r1 /\ Finished(r3) /\ req[r3].route = "DELETE /api/Church/:id"
    /\ Finished(r1) /\ req[r1].route = "GET /api/Church"
    /\ req[r1].results[1].err = "none"
    /\ req[r1].writes = <<Response(200, "rows", <<>>, <<>>)>>
    /\ Finished(r2) /\ req[r2].route = "GET /api/Person"
    /\ req[r2].results[1].err = "none"
    /\ req[r2].writes = <<Response(200, "rows", <<>>, <<>>)>>

\* C23: no request hands more than two statements to the pool, and a request
\* that hands it two is a Create or an Update of an Asset, whose first is the
\* location lookup.
C23_AtMostTwoStatements ==
  \A r \in Reqs :
    /\ Len(req[r].stmts) <= 2
    /\ Len(req[r].results) <= Len(req[r].stmts)
    /\ Len(req[r].stmts) = 2
         => /\ req[r].route \in {"POST /api/Assets", "PUT /api/Assets/:id"}
            /\ req[r].stmts[1].sql = <<"SELECT name FROM Locations WHERE location_id = ?">>

\* A Create(Asset) ran its two statements, and an Update of an Asset and a
\* Create of a Location ran one each.
C23_Witness ==
  \E r1, r2, r3 \in Reqs :
    /\ Finished(r1) /\ req[r1].route = "POST /api/Assets"
    /\ Len(req[r1].stmts) = 2 /\ Len(req[r1].results) = 2
    /\ Finished(r2) /\ req[r2].route = "PUT /api/Assets/:id" /\ Len(req[r2].stmts) = 1
    /\ Finished(r3) /\ req[r3].route = "POST /api/Locations" /\ Len(req[r3].stmts) = 1

\* C24: a request writes at most one response, whatever its query yields.
C24_AtMostOneResponse ==
  \A r \in Reqs : Len(req[r].writes) <= 1

\* C25: every request whose handler ran its query to the end, with or without
\* an error, gets a response.
C25_EveryRequestAnswered ==
  \A r \in Reqs : [](Finished(r) /\ req[r].results # <<>> => <>(req[r].writes # <<>>))

\* The INSERT of Create(Asset) is among the statements of a request.
InsertIssued(q) ==
  \E i \in 1..Len(q.stmts) :
    q.stmts[i].sql = <<"INSERT INTO Assets (location_id, name, purchase_price) VALUES (?, ?, ?)">>

\* C26: where a Create(Asset) has issued its INSERT, it had issued the lookup
\* for the location_id of its body before, and the lookup had completed
\* without error with at least one row; a request whose location_id is
\* missing, zero or no number, or whose lookup failed or found no row, has
\* issued none.  No Assets row is there but by such an INSERT.
C26_InsertOnlyAfterLookup ==
  /\ \A r \in Reqs :
       (req[r].route = "POST /api/Assets" /\ InsertIssued(req[r]))
         => /\ Len(req[r].stmts) = 2
            /\ req[r].stmts[1] = Stmt(<<"SELECT name FROM Locations WHERE location_id = ?">>,
                                      <<Bind(req[r].body.location_id)>>)
            /\ Truthy(req[r].body.location_id) /\ ~IsNaN(req[r].body.location_id)
            /\ Len(req[r].results) >= 1
            /\ req[r].results[1].err = "none"
            /\ Len(req[r].results[1].rows) >= 1
  /\ \A r \in Reqs :
       (req[r].route = "POST /api/Assets" /\ ~InsertIssued(req[r]))
         => Len(req[r].results) <= 1
  /\ \A a \in db.Assets :
       \E r \in Reqs :
         /\ req[r].route = "POST /api/Assets" /\ InsertIssued(req[r])
         /\ Len(req[r].results) = 2 /\ a.asset_id = N(req[r].results[2].insertId)

\* One Create(Asset) ran its INSERT after a lookup that found the location,
\* and one whose lookup found no row issued none.
C26_Witness ==
  \E r1, r2 \in Reqs :
    /\ Finished(r1) /\ req[r1].route = "POST /api/Assets" /\ InsertIssued(req[r1])
    /\ Len(req[r1].results) = 2 /\ req[r1].results[2].err = "none"
    /\ \E a \in db.Assets : a.asset_id = N(req[r1].results[2].insertId)
    /\ Finished(r2) /\ req[r2].route = "POST /api/Assets" /\ ~InsertIssued(req[r2])
    /\ Len(req[r2].results) = 1 /\ NoRowFound(req[r2])
    /\ req[r2].writes[1].status = 404

\* C27: a DELETE /api/Assets/{id} leaves in the table every Assets row whose
\* asset_id is neither the text of the path nor the number the text begins
\* with, whatever that text is.
C27_DeleteAssetLeavesOtherRows ==
  [][\A r \in Reqs :
       Handles(r, "DELETE /api/Assets/:id")
         => \A a \in db.Assets :
              (a.asset_id[2] # ToStr(req'[r].param) /\ a.asset_id # ParseInt(req'[r].param))
                => a \in db'.Assets
  ]_vars

====
